---- MODULE Spec2Model ----
(***************************************************************************)
(* Model of src/main.rs: the proof benchmark runner.                       *)
(*                                                                         *)
(* The main thread (benchmark_all_proofs_in) opens the CSV file, calls     *)
(* run_all_proofs_in, which spawns parallel_jobs worker threads            *)
(* (start_proof_job) and puts one RunProofMessage per proof directory on   *)
(* the work channel, and then drains the JobMessage channel, keeping the   *)
(* per-job tables proof_runtimes and started_runs and writing one CSV row  *)
(* per JobFinished.  Every worker loops over the work channel and carries  *)
(* each job through run_proof.                                             *)
(*                                                                         *)
(* Both crossbeam channels are unbounded FIFO queues.  The JobMessage      *)
(* channel is kept as the whole sequence `sent` of messages ever sent plus *)
(* the number `rcvd` the aggregator has taken, so the channel's content is *)
(* the suffix of `sent` after `rcvd` and the event stream is `sent`.       *)
(* Instant::now() reads a monotonic clock, in seconds: a reading is the    *)
(* last reading `now` of any thread or one tick later.  A worker reads the *)
(* clock in one step and sends the message that carries the reading in a   *)
(* later step.  When the main thread has ended, the process ends and every *)
(* worker thread stops where it is.                                        *)
(*                                                                         *)
(* File names and the content of the output file are sequences of bytes    *)
(* (numbers 0..255).  The environment is part of the state: the entries of *)
(* the proofs directory, what the external command returns, whether the    *)
(* output file takes every write whole, whether stdout can be written, and *)
(* whether the operating system gives the process every thread it asks for.*)
(***************************************************************************)
EXTENDS Naturals, Integers, Sequences, FiniteSets, TLC

\* ---------------------------------------------------------------- bounds
MaxJobs == 3
MaxIter == 2
MaxPar == 2
\* size of one batch: jobs * (iterations + 1) * parallel_jobs, which is half
\* the number of JobMessages of the batch times the number of worker threads
MaxWork == 8
\* the same, for the batches whose liveness is checked, for those in a
\* hostile environment (a name that is not one plain byte, an output file
\* that fails), and for those with a stubbed command or an output file that
\* exists already
MaxFairWork == 4
\* the same, for the batches in which the pool of workers is checked: three
\* jobs of one run, or two jobs of two runs, on two workers
MaxPoolWork == 12
\* the last reading of the clock: the ticks that pass during a batch, plus one
MaxInstant == 2

VARIABLES
    dir_entries,    \* file system: the names of the entries of proofs_path that hold a Makefile
    make_stub,      \* the external command: <<entry, run>> -> what run_make returns
    sink,           \* the output file: "sound" (every write is taken whole) or "faulty"
    console,        \* stdout: "sound" (every line is printed) or "faulty"
    threads,        \* the OS: "sound" (every thread asked for is created) or "scarce"
    main_pc,        \* position of the main thread
    iterations,     \* Arguments.iterations
    parallel_jobs,  \* Arguments.parallel_jobs
    csv_file,       \* the output file: [data: its bytes, pos: offset of the handle]
    proof_dirs,     \* run_all_proofs_in: the sorted proof directories
    nr_of_jobs,     \* value returned by run_all_proofs_in
    spawned,        \* start_proof_job calls made so far
    dispatched,     \* RunProofMessages sent so far
    queue,          \* the RunProofMessage channel
    taken,          \* per path: how often it was received from the work channel
    wpc,            \* per worker: position in the worker closure / run_proof
    wmsg,           \* per worker: the RunProofMessage being run
    wrun,           \* per worker: iterations of the for loop completed
    wres,           \* per worker: what run_make returned
    wts,            \* per worker: the Instant read for the message about to be sent
    now,            \* the last reading of Instant::now() by any thread
    sent,           \* the JobMessage channel: every message sent, in order
    rcvd,           \* number of JobMessages received by the aggregator
    proof_runtimes, \* aggregator: path -> Vec<Option<Duration>>
    started_runs,   \* aggregator: path -> Instant
    completed_jobs, \* aggregator: counter
    stdout          \* the lines printed by println!, in order

vars == <<dir_entries, make_stub, sink, console, threads, main_pc, iterations, parallel_jobs, csv_file,
          proof_dirs, nr_of_jobs, spawned, dispatched, queue, taken, wpc, wmsg, wrun,
          wres, wts, now, sent, rcvd, proof_runtimes, started_runs, completed_jobs,
          stdout>>

\* the environment and the arguments, fixed during a batch
env_vars == <<dir_entries, make_stub, sink, console, threads, iterations, parallel_jobs>>
main_vars == <<main_pc, csv_file, proof_dirs, nr_of_jobs, spawned, dispatched>>
worker_vars == <<queue, taken, wpc, wmsg, wrun, wres, wts, now, sent>>
agg_vars == <<rcvd, proof_runtimes, started_runs, completed_jobs, stdout>>

\* ------------------------------------------------------------ data types
\* enum JobMessagePayload
JobStarted == "JobStarted"
RunStarted == "RunStarted"
RunFinished == "RunFinished"
RunFailed == "RunFailed"
JobFinished == "JobFinished"

\* struct JobMessage(PathBuf, Instant, JobMessagePayload)
JobMessage(path, instant, payload) ==
    [path |-> path, timestamp |-> instant, payload |-> payload]

\* struct RunProofMessage { job_path, iterations }
RunProofMessage(path, iters) == [job_path |-> path, iterations |-> iters]

\* Option<T>: None is the empty sequence, Some(x) the one-element sequence
None == <<>>
Some(x) == <<x>>
IsSome(o) == Len(o) = 1

NoMessage == [job_path |-> <<>>, iterations |-> 0]

\* the worker threads; one more than MaxPar so that a surplus spawn has a slot
Workers == 1..(MaxPar + 1)

\* IOResult<ExitStatus> of run_make: the command ran and exited with status 0,
\* it ran and exited with another status, or it could not be launched
ExitZero == "Ok(exit 0)"
ExitNonZero == "Ok(exit 1)"
LaunchError == "Err(io)"
MakeResults == {ExitZero, ExitNonZero, LaunchError}
IsOk(res) == res \in {ExitZero, ExitNonZero}

\* the decimal digits of a natural number, as ASCII bytes
RECURSIVE Digits(_)
Digits(n) == IF n < 10 THEN <<48 + n>> ELSE Digits(n \div 10) \o <<48 + (n % 10)>>

\* entry names (OsString): "1", "2", .. are the plain ones; "10" has two
\* bytes and sorts between "1" and "2"; the byte 0xFF alone is a name the
\* file system allows and that is not UTF-8
PlainName(k) == Digits(k)
PlainNames(n) == {PlainName(k) : k \in 1..n}
LongName == <<49, 48>>
NonUtf8Name == <<255>>
NameSets ==
    {PlainNames(n) : n \in 0..MaxJobs}
        \cup {PlainNames(n) \cup {odd} : n \in 0..1, odd \in {LongName, NonUtf8Name}}

\* paths: a proof directory is <<root, entry name>>
ProofsPath == "proofs"
EntryPath(name) == <<ProofsPath, name>>
\* Path::file_name: the last component (an entry that read_dir lists never
\* ends in "..", so the expect of line 165 does not fire)
file_name(path) == path[Len(path)]
\* OsStr::to_str: Some(the same bytes) when they are valid UTF-8.  Of the
\* bytes used here the ASCII ones are, and 0xFF never is part of UTF-8.
to_str(os_str) ==
    IF \A i \in 1..Len(os_str) : os_str[i] < 128 THEN Some(os_str) ELSE None
\* Ord for OsStr: byte-wise lexicographic
BytesLess(x, y) ==
    \E i \in 1..Len(y) :
        /\ i <= Len(x) + 1
        /\ \A j \in 1..(i - 1) : x[j] = y[j]
        /\ (i = Len(x) + 1 \/ x[i] < y[i])
\* Ord for PathBuf, on entries of one directory
PathLess(a, b) == BytesLess(file_name(a), file_name(b))

\* the set of sequences that list every element of S once
Listings(S) ==
    {f \in [1..Cardinality(S) -> S] : \A i, j \in 1..Cardinality(S) : f[i] = f[j] => i = j}

\* HashMap operations
Insert(map, key, value) ==
    [k \in DOMAIN map \cup {key} |-> IF k = key THEN value ELSE map[k]]
Remove_clears(map, key) == [k \in {} |-> map[k]]
Remove_keeps(map, key) == map
Remove(map, key) == [k \in DOMAIN map \ {key} |-> map[k]]
EmptyMap == [k \in {} |-> 0]

\* ------------------------------------------------------------------ Init
\* a batch in a plain environment: every name is one plain byte, the output
\* file takes every write whole, stdout can be written and threads can be
\* created
Plain ==
    /\ dir_entries \in {PlainNames(n) : n \in 0..MaxJobs}
    /\ sink = "sound"
    /\ console = "sound"
    /\ threads = "sound"

\* the size of the batch
Work == Cardinality(dir_entries) * (iterations + 1) * parallel_jobs

\* the state at the call of benchmark_all_proofs_in, for a batch of size at
\* most `work` (at most MaxFairWork when the environment is not plain); the
\* content of the output file, the external command and the reading of the
\* clock are set by the caller
Start(work) ==
    /\ main_pc = "open_csv"
    /\ iterations \in 0..MaxIter
    /\ parallel_jobs \in 0..MaxPar
    /\ dir_entries \in NameSets
    /\ sink \in {"sound", "faulty"}
    /\ console \in {"sound", "faulty"}
    /\ threads \in {"sound", "scarce"}
    /\ Work <= (IF Plain THEN work ELSE MaxFairWork)
    /\ Work <= work
    /\ proof_dirs = <<>>
    /\ nr_of_jobs = 0
    /\ spawned = 0
    /\ dispatched = 0
    /\ queue = <<>>
    /\ taken = EmptyMap
    /\ wpc = [w \in Workers |-> "unspawned"]
    /\ wmsg = [w \in Workers |-> NoMessage]
    /\ wrun = [w \in Workers |-> 0]
    /\ wres = [w \in Workers |-> "none"]
    /\ wts = [w \in Workers |-> 0]
    /\ sent = <<>>
    /\ rcvd = 0
    /\ proof_runtimes = EmptyMap
    /\ started_runs = EmptyMap
    /\ completed_jobs = 0
    /\ stdout = <<>>

\* the output file does not exist yet, the external command may return
\* anything at every call (make_stub is defined nowhere), and the clock
\* stands at its first reading
Init ==
    /\ Start(MaxWork)
    /\ csv_file = [data |-> <<>>, pos |-> 0]
    /\ make_stub = EmptyMap
    /\ now = 1

\* ------------------------------------------------- main: before the loop
\* line 156: OpenOptions::new().create(true).write(true).open(csv_path)?
\* An existing file keeps its content and the handle starts at offset 0.
OpenCsv ==
    /\ main_pc = "open_csv"
    /\ \E ok \in BOOLEAN : main_pc' = IF ok THEN "read_dir" ELSE "open_err"
    /\ UNCHANGED <<env_vars, csv_file, proof_dirs, nr_of_jobs, spawned, dispatched,
                   worker_vars, agg_vars>>

\* proof_dirs_mut.sort()
sort(listing) == SortSeq(listing, PathLess)

ReadDir_after_spawn ==
    /\ main_pc = "read_dir"
    /\ \/ /\ main_pc' = "read_dir_err"
          /\ spawned' = parallel_jobs
          /\ wpc' = [w \in Workers |-> IF w <= parallel_jobs THEN "recv" ELSE wpc[w]]
          /\ UNCHANGED <<proof_dirs, nr_of_jobs, taken>>
       \/ /\ \E listing \in Listings({EntryPath(name) : name \in dir_entries}) :
                 /\ proof_dirs' = sort(listing)
                 /\ nr_of_jobs' = Len(listing)
                 /\ taken' = [path \in {EntryPath(name) : name \in dir_entries} |-> 0]
          /\ main_pc' = "run_all"
          /\ UNCHANGED <<spawned, wpc>>
    /\ UNCHANGED <<env_vars, csv_file, dispatched, queue, wmsg, wrun, wres, wts, now,
                   sent, agg_vars>>

\* lines 109-115: read_dir(proofs_path)?.filter_map(to_proof_dir).collect(),
\* sorted.  read_dir fails, or the file system lists the qualifying entries
\* in any order.
ReadDir ==
    /\ main_pc = "read_dir"
    /\ \/ /\ main_pc' = "read_dir_err"
          /\ UNCHANGED <<proof_dirs, nr_of_jobs, taken>>
       \/ /\ \E listing \in Listings({EntryPath(name) : name \in dir_entries}) :
                 /\ proof_dirs' = sort(listing)
                 /\ nr_of_jobs' = Len(listing)
                 /\ taken' = [path \in {EntryPath(name) : name \in dir_entries} |-> 0]
          /\ main_pc' = "run_all"
    /\ UNCHANGED <<env_vars, csv_file, spawned, dispatched, queue, wpc, wmsg, wrun,
                   wres, wts, now, sent, agg_vars>>

\* line 118: for _ in 0..parallel_jobs
SpawnMore_inclusive == spawned < parallel_jobs + 1
SpawnMore == spawned < parallel_jobs

\* line 88: std::thread::spawn returns the handle of the new thread, or
\* panics in the calling thread when the OS refuses to create one
spawn ==
    IF threads = "sound" THEN {TRUE} ELSE {TRUE, FALSE}

\* lines 84-97 and 118-120: one start_proof_job call; the new thread starts
\* at job_receiver.recv(), and without a new thread the main thread panics
StartProofJob ==
    /\ main_pc = "run_all"
    /\ SpawnMore
    /\ \E created \in spawn :
         IF created
         THEN /\ spawned' = spawned + 1
              /\ wpc' = [wpc EXCEPT ![spawned + 1] = "recv"]
              /\ UNCHANGED main_pc
         ELSE /\ main_pc' = "panicked_spawn"
              /\ UNCHANGED <<spawned, wpc>>
    /\ UNCHANGED <<env_vars, csv_file, proof_dirs, nr_of_jobs, dispatched,
                   queue, taken, wmsg, wrun, wres, wts, now, sent, agg_vars>>

SendRunProof_needs_worker ==
    /\ main_pc = "run_all"
    /\ ~SpawnMore
    /\ dispatched < Len(proof_dirs)
    /\ IF spawned = 0
       THEN /\ main_pc' = "panicked"
            /\ UNCHANGED <<queue, dispatched>>
       ELSE /\ queue' = Append(queue, RunProofMessage(proof_dirs[dispatched + 1], iterations))
            /\ dispatched' = dispatched + 1
            /\ UNCHANGED main_pc
    /\ UNCHANGED <<env_vars, csv_file, proof_dirs, nr_of_jobs, spawned, taken, wpc,
                   wmsg, wrun, wres, wts, now, sent, agg_vars>>

\* lines 123-130: one job_run_sender.send(RunProofMessage {..}); the channel
\* is unbounded and main holds job_run_receiver, so the send succeeds
SendRunProof ==
    /\ main_pc = "run_all"
    /\ ~SpawnMore
    /\ dispatched < Len(proof_dirs)
    /\ queue' = Append(queue, RunProofMessage(proof_dirs[dispatched + 1], iterations))
    /\ dispatched' = dispatched + 1
    /\ UNCHANGED <<env_vars, main_pc, csv_file, proof_dirs, nr_of_jobs, spawned, taken,
                   wpc, wmsg, wrun, wres, wts, now, sent, agg_vars>>

\* line 131: Ok(nr_of_jobs); sender, job_run_sender and job_run_receiver of
\* run_all_proofs_in are dropped
ReturnRunAll ==
    /\ main_pc = "run_all"
    /\ ~SpawnMore
    /\ dispatched = Len(proof_dirs)
    /\ main_pc' = "recv_loop"
    /\ UNCHANGED <<env_vars, csv_file, proof_dirs, nr_of_jobs, spawned, dispatched,
                   worker_vars, agg_vars>>

\* ---------------------------------------------------------------- workers
\* job_run_sender lives until run_all_proofs_in returns or unwinds
JobRunSenderAlive == main_pc = "run_all"

\* the panics of the main thread: an expect or index that finds nothing
\* (lines 129, 176, 183, 191, 195, 208, 212), the to_str().expect(..) of line
\* 167, a println! that cannot write to stdout, and the thread::spawn of
\* line 88 that gets no thread
MainPanics == {"panicked", "panicked_utf8", "panicked_stdout", "panicked_spawn"}

\* the positions at which the main thread has ended: benchmark_all_proofs_in
\* returned Ok(()) or an Err that `?` handed on, or the thread panicked
MainEnded == {"done_ok", "open_err", "read_dir_err", "write_err"} \cup MainPanics

\* the receiver of the JobMessage channel lives until benchmark_all_proofs_in
\* ends
ReceiverAlive == main_pc \notin MainEnded

\* a recv on the work channel that is not disconnected: the oldest message is
\* handed out and leaves the channel
recv_LIFO(q) == [msg |-> q[Len(q)], rest |-> SubSeq(q, 1, Len(q) - 1)]
recv_keeps(q) == [msg |-> Head(q), rest |-> q]
recv(q) == [msg |-> Head(q), rest |-> Tail(q)]

\* line 89: job_receiver.recv() returns a message
WorkerRecv(w) ==
    /\ wpc[w] = "recv"
    /\ queue /= <<>>
    /\ wmsg' = [wmsg EXCEPT ![w] = recv(queue).msg]
    /\ queue' = recv(queue).rest
    /\ taken' = [taken EXCEPT ![recv(queue).msg.job_path] = @ + 1]
    /\ wpc' = [wpc EXCEPT ![w] = "job_started"]
    /\ UNCHANGED <<env_vars, main_vars, wrun, wres, wts, now, sent, agg_vars>>

\* line 89: job_receiver.recv() returns Err (channel empty and disconnected):
\* the thread ends and drops job_sender
WorkerExit(w) ==
    /\ wpc[w] = "recv"
    /\ queue = <<>>
    /\ ~JobRunSenderAlive
    /\ wpc' = [wpc EXCEPT ![w] = "exited"]
    /\ UNCHANGED <<env_vars, main_vars, queue, taken, wmsg, wrun, wres, wts, now, sent,
                   agg_vars>>

\* Instant::now(): the readings a thread can get when the last reading of
\* any thread was `last`.  The clock is monotonic and not strict: no time or
\* one tick has passed since.
InstantNow(last) == {last} \cup {later \in {last + 1} : later <= MaxInstant}

\* the position at which the message built at `pc` is sent
SendPc(pc) ==
    CASE pc = "job_started" -> "send_job_started"
      [] pc = "run_started" -> "send_run_started"
      [] pc = "job_finished" -> "send_job_finished"

\* lines 48, 52 and 65: the argument Instant::now() of JobMessage(..) is
\* evaluated; the send is a later step, and other threads run in between
ReadClock(w) ==
    /\ wpc[w] \in {"job_started", "run_started", "job_finished"}
    /\ \E instant \in InstantNow(now) :
         /\ wts' = [wts EXCEPT ![w] = instant]
         /\ now' = instant
    /\ wpc' = [wpc EXCEPT ![w] = SendPc(wpc[w])]
    /\ UNCHANGED <<env_vars, main_vars, queue, taken, wmsg, wrun, wres, sent, agg_vars>>

\* sender.send(JobMessage(path, instant, payload)).expect(..) with the Instant
\* read before, followed by the move of the worker to position `next`
Send(w, payload, next) ==
    /\ IF ReceiverAlive
       THEN /\ sent' = Append(sent, JobMessage(wmsg[w].job_path, wts[w], payload))
            /\ wpc' = [wpc EXCEPT ![w] = next]
       ELSE /\ wpc' = [wpc EXCEPT ![w] = "panicked"]
            /\ UNCHANGED sent
    /\ wts' = [wts EXCEPT ![w] = 0]

\* line 51: for _ in 0..iterations, after `done` iterations
LoopHead_inclusive(w, done) ==
    IF done <= wmsg[w].iterations THEN "run_started" ELSE "job_finished"
LoopHead_start_once(w, done) ==
    IF done < wmsg[w].iterations
    THEN (IF done = 0 THEN "run_started" ELSE "run_make")
    ELSE "job_finished"
LoopHead(w, done) == IF done < wmsg[w].iterations THEN "run_started" ELSE "job_finished"

\* lines 48-50: the send of JobStarted
SendJobStarted(w) ==
    /\ wpc[w] = "send_job_started"
    /\ Send(w, JobStarted, LoopHead(w, 0))
    /\ wrun' = [wrun EXCEPT ![w] = 0]
    /\ UNCHANGED <<env_vars, main_vars, queue, taken, wmsg, wres, now, agg_vars>>

\* lines 52-55: the send of RunStarted, then the call of run_make
SendRunStarted(w) ==
    /\ wpc[w] = "send_run_started"
    /\ Send(w, RunStarted, "run_make")
    /\ UNCHANGED <<env_vars, main_vars, queue, taken, wmsg, wrun, wres, now, agg_vars>>

\* lines 35-44: what `make result` in the directory `path` can return at the
\* run-th call of a job: what the stub fixes, or anything where it fixes nothing
run_make(path, run) ==
    IF <<file_name(path), run>> \in DOMAIN make_stub
    THEN {make_stub[<<file_name(path), run>>]}
    ELSE MakeResults

\* line 55: if let Ok(_status) = run_make(..) { RunFinished } else { RunFailed }
RunEndPayload(res) == IF IsOk(res) THEN RunFinished ELSE RunFailed

\* lines 35-44 and 55-63: the external command returns, the branch of `if let`
\* is taken and its Instant::now() is evaluated.  The command counts as in
\* flight up to this step; the send of the message is the next step.
RunMake(w) ==
    /\ wpc[w] = "run_make"
    /\ \E res \in run_make(wmsg[w].job_path, wrun[w] + 1) :
         wres' = [wres EXCEPT ![w] = res]
    /\ \E instant \in InstantNow(now) :
         /\ wts' = [wts EXCEPT ![w] = instant]
         /\ now' = instant
    /\ wpc' = [wpc EXCEPT ![w] = "send_run_end"]
    /\ UNCHANGED <<env_vars, main_vars, queue, taken, wmsg, wrun, sent, agg_vars>>

\* lines 56-63: the send of RunFinished or RunFailed, then the next iteration
SendRunEnd(w) ==
    /\ wpc[w] = "send_run_end"
    /\ Send(w, RunEndPayload(wres[w]), LoopHead(w, wrun[w] + 1))
    /\ wrun' = [wrun EXCEPT ![w] = @ + 1]
    /\ wres' = [wres EXCEPT ![w] = "none"]
    /\ UNCHANGED <<env_vars, main_vars, queue, taken, wmsg, now, agg_vars>>

\* lines 65-67: the send of JobFinished, and back to line 89
SendJobFinished(w) ==
    /\ wpc[w] = "send_job_finished"
    /\ Send(w, JobFinished, "recv")
    /\ wmsg' = [wmsg EXCEPT ![w] = NoMessage]
    /\ wrun' = [wrun EXCEPT ![w] = 0]
    /\ UNCHANGED <<env_vars, main_vars, queue, taken, wres, now, agg_vars>>

\* ------------------------------------------------------------- CSV sink
\* the buffers handed to File::write
\* job_name.as_bytes()
as_bytes(job_name) == job_name
\* ",".as_bytes()
Comma == <<44>>
\* format!("{}", runtime.as_secs_f32()).as_bytes(): a whole number of seconds
\* prints as its decimal digits
SecsBytes(runtime) == Digits(runtime)
\* "\n".as_bytes()
Newline == <<10>>

\* the file after `bytes` went to its current offset: they replace the bytes
\* that are there, extend the file past its end, and the offset moves past
\* them (the file is opened without append or truncate)
Overwrite(file, bytes) ==
    [data |-> [i \in 1..(IF file.pos + Len(bytes) > Len(file.data)
                         THEN file.pos + Len(bytes) ELSE Len(file.data)) |->
                  IF file.pos < i /\ i <= file.pos + Len(bytes)
                  THEN bytes[i - file.pos]
                  ELSE file.data[i]],
     pos |-> file.pos + Len(bytes)]

\* csv_file.write(buf): the outcomes of one call, as the file after it and
\* whether it returned Ok.  A sound file takes the whole buffer.  Otherwise
\* the call may take a non-empty prefix of it and return Ok(n), a count the
\* callers do not look at, or fail and leave the file as it is.
write(file, buf) ==
    IF sink = "sound"
    THEN {[file |-> Overwrite(file, buf), ok |-> TRUE]}
    ELSE {[file |-> Overwrite(file, SubSeq(buf, 1, n)), ok |-> TRUE] : n \in 1..Len(buf)}
             \cup {[file |-> file, ok |-> FALSE]}

\* csv_file.write(buf)? after earlier calls: an Err ends the function with
\* the file as that call left it
ThenWrite(outcomes, buf) ==
    UNION {IF o.ok THEN write(o.file, buf) ELSE {o} : o \in outcomes}

\* lines 140-145: for run in run_results { write ","; if Some, write the number }
RECURSIVE write_runs(_, _)
write_runs(run_results, file) ==
    IF run_results = <<>>
    THEN {[file |-> file, ok |-> TRUE]}
    ELSE LET run == Head(run_results)
             with_comma == write(file, Comma)
             with_run == IF IsSome(run)
                         THEN ThenWrite(with_comma, SecsBytes(run[1]))
                         ELSE with_comma
         IN UNION {IF o.ok THEN write_runs(Tail(run_results), o.file) ELSE {o} :
                     o \in with_run}

\* lines 134-148: the outcomes of one call; the flush of line 147 has nothing
\* to do on a File and returns Ok
dump_csv(job_name, run_results, file) ==
    ThenWrite(UNION {IF o.ok THEN write_runs(run_results, o.file) ELSE {o} :
                       o \in write(file, as_bytes(job_name))},
              Newline)

\* ------------------------------------------------------------ aggregator
\* Instant - Instant
Elapsed(later, earlier) == IF later >= earlier THEN later - earlier ELSE 0

\* line 209: let runtime = timestamp - start_time
FinishedRuntime_now(timestamp, start_time, clock) == Elapsed(clock, start_time)
FinishedRuntime(timestamp, start_time, clock) == Elapsed(timestamp, start_time)

\* println!: one line, kept as the text before the first placeholder followed
\* by the values of the placeholders; the seconds that end the FINISHED RUN
\* and FAILED RUN lines are left out.  The outcomes of one call, as the lines
\* printed after it and whether it returned: println! panics when stdout
\* cannot be written, and the line is then not counted as printed.
println(out, line) ==
    IF console = "sound"
    THEN {[out |-> Append(out, line), ok |-> TRUE]}
    ELSE {[out |-> Append(out, line), ok |-> TRUE], [out |-> out, ok |-> FALSE]}

\* lines 170-173
JobStartedArm(msg, job_name) ==
    /\ \E p \in println(stdout, <<"STARTING", job_name>>) :
         /\ stdout' = p.out
         /\ IF p.ok
            THEN /\ proof_runtimes' = Insert(proof_runtimes, msg.path, <<>>)
                 /\ UNCHANGED main_pc
            ELSE /\ main_pc' = "panicked_stdout"
                 /\ UNCHANGED proof_runtimes
    /\ UNCHANGED <<started_runs, completed_jobs, csv_file>>

\* lines 174-178; proof_runtimes[&proof_path] panics when the key is missing,
\* and dump_csv(..)? returns the Err of a failed write before the println!
JobFinishedArm(msg, job_name) ==
    /\ completed_jobs' = completed_jobs + 1
    /\ IF msg.path \in DOMAIN proof_runtimes
       THEN \E o \in dump_csv(job_name, proof_runtimes[msg.path], csv_file) :
                /\ csv_file' = o.file
                /\ IF o.ok
                   THEN \E p \in println(stdout,
                                         <<"COMPLETED", completed_jobs', nr_of_jobs>>) :
                            /\ stdout' = p.out
                            /\ main_pc' = IF p.ok THEN main_pc ELSE "panicked_stdout"
                   ELSE /\ main_pc' = "write_err"
                        /\ UNCHANGED stdout
       ELSE /\ main_pc' = "panicked"
            /\ UNCHANGED <<csv_file, stdout>>
    /\ UNCHANGED <<proof_runtimes, started_runs>>

\* lines 179-187
RunStartedArm(msg, job_name) ==
    /\ started_runs' = Insert(started_runs, msg.path, msg.timestamp)
    /\ IF msg.path \in DOMAIN proof_runtimes
       THEN \E p \in println(stdout, <<"STARTING RUN", Len(proof_runtimes[msg.path]) + 1,
                                        iterations, job_name>>) :
                /\ stdout' = p.out
                /\ main_pc' = IF p.ok THEN main_pc ELSE "panicked_stdout"
       ELSE /\ main_pc' = "panicked"
            /\ UNCHANGED stdout
    /\ UNCHANGED <<proof_runtimes, completed_jobs, csv_file>>

\* lines 188-221: the two arms that end a run; they differ in the entry
\* pushed, in the text printed and in whether println! comes after the push
\* (a println! that panics before the push leaves the record as it was)
RunEndArm(msg, job_name, entry, text, push_first) ==
    /\ IF msg.path \notin DOMAIN started_runs
       THEN /\ main_pc' = "panicked"
            /\ UNCHANGED <<started_runs, proof_runtimes, stdout>>
       ELSE /\ started_runs' = Remove(started_runs, msg.path)
            /\ IF msg.path \notin DOMAIN proof_runtimes
               THEN /\ main_pc' = "panicked"
                    /\ UNCHANGED <<proof_runtimes, stdout>>
               ELSE LET pushed == [proof_runtimes EXCEPT ![msg.path] = Append(@, entry)]
                    IN \E p \in println(stdout,
                                        <<text,
                                          IF push_first THEN Len(pushed[msg.path])
                                          ELSE Len(proof_runtimes[msg.path]),
                                          iterations, job_name>>) :
                           /\ stdout' = p.out
                           /\ proof_runtimes' =
                                  IF push_first \/ p.ok THEN pushed ELSE proof_runtimes
                           /\ main_pc' = IF p.ok THEN main_pc ELSE "panicked_stdout"
    /\ UNCHANGED <<completed_jobs, csv_file>>

\* lines 188-204: println!("FAILED RUN [{}/{}] ..", proof_runtime.len(), ..),
\* then proof_runtime.push(None)
RunFailedArm(msg, job_name) == RunEndArm(msg, job_name, None, "FAILED RUN", FALSE)

\* lines 205-221: proof_runtime.push(Some(runtime)), then
\* println!("FINISHED RUN [{}/{}] ..", proof_runtime.len(), ..)
RunFinishedArm(msg, job_name) ==
    RunEndArm(msg, job_name,
              IF msg.path \in DOMAIN started_runs
              THEN Some(FinishedRuntime(msg.timestamp, started_runs[msg.path], now))
              ELSE None,
              "FINISHED RUN", TRUE)

\* lines 169-222: match message_type
Handle(msg, job_name) ==
    CASE msg.payload = JobStarted -> JobStartedArm(msg, job_name)
      [] msg.payload = JobFinished -> JobFinishedArm(msg, job_name)
      [] msg.payload = RunStarted -> RunStartedArm(msg, job_name)
      [] msg.payload = RunFailed -> RunFailedArm(msg, job_name)
      [] msg.payload = RunFinished -> RunFinishedArm(msg, job_name)

\* line 162: receiver.recv() returns a message; lines 163-167 take the job
\* name, where to_str().expect(..) panics on a name that is not UTF-8 before
\* any arm runs; lines 168-222 handle the message
AggRecv ==
    /\ main_pc = "recv_loop"
    /\ rcvd < Len(sent)
    /\ rcvd' = rcvd + 1
    /\ LET msg == sent[rcvd + 1]
           job_name == to_str(file_name(msg.path))
       IN IF IsSome(job_name)
          THEN Handle(msg, job_name[1])
          ELSE /\ main_pc' = "panicked_utf8"
               /\ UNCHANGED <<csv_file, proof_runtimes, started_runs, completed_jobs,
                              stdout>>
    /\ UNCHANGED <<env_vars, proof_dirs, nr_of_jobs, spawned, dispatched, worker_vars>>

\* a worker thread holds its clone of the sender from spawn until it ends:
\* by leaving its loop, by a panic, or with the process
HoldsSender(w) == wpc[w] \notin {"unspawned", "exited", "panicked", "killed"}

\* line 162: receiver.recv() returns Err: the channel is empty and every
\* sender is dropped; line 224: Ok(())
AggDisconnected ==
    /\ main_pc = "recv_loop"
    /\ rcvd = Len(sent)
    /\ \A w \in Workers : ~HoldsSender(w)
    /\ main_pc' = "done_ok"
    /\ UNCHANGED <<env_vars, csv_file, proof_dirs, nr_of_jobs, spawned, dispatched,
                   worker_vars, agg_vars>>

\* lines 238-248: main returns what benchmark_all_proofs_in returned, or the
\* main thread has panicked: the process ends, and every worker thread that
\* is still running stops where it is.  Until then the workers go on.
ProcessExit ==
    /\ main_pc \in MainEnded
    /\ \E w \in Workers : HoldsSender(w)
    /\ wpc' = [w \in Workers |-> IF HoldsSender(w) THEN "killed" ELSE wpc[w]]
    /\ UNCHANGED <<env_vars, main_vars, queue, taken, wmsg, wrun, wres, wts, now, sent,
                   agg_vars>>

\* ------------------------------------------------------- specifications
MainStep ==
    \/ OpenCsv
    \/ ReadDir
    \/ StartProofJob
    \/ SendRunProof
    \/ ReturnRunAll
    \/ AggRecv
    \/ AggDisconnected
    \/ ProcessExit

WorkerStep(w) ==
    \/ WorkerRecv(w)
    \/ WorkerExit(w)
    \/ ReadClock(w)
    \/ SendJobStarted(w)
    \/ SendRunStarted(w)
    \/ RunMake(w)
    \/ SendRunEnd(w)
    \/ SendJobFinished(w)

Next ==
    \/ OpenCsv
    \/ ReadDir
    \/ StartProofJob
    \/ SendRunProof
    \/ ReturnRunAll
    \/ AggRecv
    \/ AggDisconnected
    \/ ProcessExit
    \/ \E w \in Workers : WorkerRecv(w)
    \/ \E w \in Workers : WorkerExit(w)
    \/ \E w \in Workers : ReadClock(w)
    \/ \E w \in Workers : SendJobStarted(w)
    \/ \E w \in Workers : SendRunStarted(w)
    \/ \E w \in Workers : RunMake(w)
    \/ \E w \in Workers : SendRunEnd(w)
    \/ \E w \in Workers : SendJobFinished(w)

Spec == Init /\ [][Next]_vars

\* the batches whose liveness is checked
FairInit ==
    /\ Init
    /\ Work <= MaxFairWork

\* every thread that can take a step eventually takes one, and every external
\* command returns (RunMake is a step of its worker); the process ends once
\* the main thread has, and a worker it stops owes no further step
FairSpec ==
    /\ FairInit
    /\ [][Next]_vars
    /\ WF_vars(MainStep)
    /\ \A w \in Workers : WF_vars(WorkerStep(w))

\* the external command is a deterministic stub: the result of every run of
\* every job is fixed before the batch starts, and there are workers to run it
StubInit ==
    /\ Start(MaxFairWork)
    /\ parallel_jobs >= 1
    /\ csv_file = [data |-> <<>>, pos |-> 0]
    /\ now = 1
    /\ make_stub \in [dir_entries \X (1..iterations) -> MakeResults]

StubSpec == StubInit /\ [][Next]_vars

\* what an earlier batch left in the output file: no file, "0,1\n", or
\* "9,\n0,1.5\n"
PreviousContents ==
    {<<>>,
     <<48, 44, 49, 10>>,
     <<57, 44, 10, 48, 44, 49, 46, 53, 10>>}

\* the output file may exist already when the batch starts
FileInit ==
    /\ Start(MaxFairWork)
    /\ \E data \in PreviousContents : csv_file = [data |-> data, pos |-> 0]
    /\ make_stub = EmptyMap
    /\ now = 1

FileSpec == FileInit /\ [][Next]_vars

\* The batches in which the pool of workers is checked: those of Init, and
\* the larger ones up to MaxPoolWork in a plain environment.  In the larger
\* ones the clock stands at the last reading the model tells apart, so every
\* reading of the batch is the same: no branch of the program depends on an
\* Instant (they are stored at line 180 and subtracted at lines 192 and 209).
PoolInit ==
    /\ Start(MaxPoolWork)
    /\ csv_file = [data |-> <<>>, pos |-> 0]
    /\ make_stub = EmptyMap
    /\ now = IF Work <= MaxWork THEN 1 ELSE MaxInstant

PoolSpec == PoolInit /\ [][Next]_vars

\* ---------------------------------------------------------------- views
\* the paths run_all_proofs_in dispatches
Paths == {proof_dirs[i] : i \in 1..Len(proof_dirs)}
\* position of a path in the sorted order
Rank(path) == CHOOSE k \in 1..Len(proof_dirs) : proof_dirs[k] = path

\* the messages of one job, in the order of the stream
EventsOf(stream, path) == SelectSeq(stream, LAMBDA m : m.path = path)
\* the messages of one job with one of the payloads
EventsWith(stream, path, payloads) ==
    SelectSeq(stream, LAMBDA m : m.path = path /\ m.payload \in payloads)
\* positions of the stream that hold the message (path, payload)
Positions(stream, path, payload) ==
    {i \in 1..Len(stream) : stream[i].path = path /\ stream[i].payload = payload}
Count(stream, path, payloads) == Len(EventsWith(stream, path, payloads))

\* the messages the aggregator has received so far
Received == SubSeq(sent, 1, rcvd)

\* the commands in flight: run_make was called and has not returned
InFlight == {w \in Workers : wpc[w] = "run_make"}

\* the batch is over: benchmark_all_proofs_in returned Ok(())
Done == main_pc = "done_ok"

\* ------------------------------------------------------------------- C1
\* C1: in every reachable state with parallel_jobs >= 1, the number of
\* external commands in flight over all workers is at most parallel_jobs.
C1_InFlightAtMostParallelJobs ==
    parallel_jobs >= 1 => Cardinality(InFlight) <= parallel_jobs

\* both workers of a pool of two run a command at the same time while the
\* third of three jobs waits on the work queue
C1_Witness ==
    /\ parallel_jobs = 2
    /\ nr_of_jobs = 3
    /\ iterations >= 1
    /\ Cardinality(InFlight) = 2
    /\ queue /= <<>>

\* ------------------------------------------------------------------- C2
\* job -> the workers that hold it now
HeldBy(path) == {w \in Workers : wmsg[w].job_path = path}

\* C2: no job is ever taken from the work queue twice or held by two workers,
\* its JobStarted and JobFinished are each sent at most once with JobStarted
\* first, and when the batch is over (parallel_jobs >= 1) every dispatched job
\* was taken exactly once and has exactly one JobStarted and one JobFinished.
C2_EachJobRunExactlyOnce ==
    /\ \A path \in Paths :
         /\ taken[path] <= 1
         /\ Cardinality(HeldBy(path)) <= 1
         /\ Cardinality(Positions(sent, path, JobStarted)) <= 1
         /\ Cardinality(Positions(sent, path, JobFinished)) <= 1
         /\ \A f \in Positions(sent, path, JobFinished) :
              \E b \in Positions(sent, path, JobStarted) : b < f
    /\ (Done /\ parallel_jobs >= 1) =>
         \A path \in Paths :
           /\ taken[path] = 1
           /\ Cardinality(Positions(sent, path, JobStarted)) = 1
           /\ Cardinality(Positions(sent, path, JobFinished)) = 1

\* a batch of two jobs on two workers is over, and the job sorted second
\* finished first
C2_Witness ==
    /\ Done
    /\ parallel_jobs = 2
    /\ Len(proof_dirs) = 2
    /\ \A path \in Paths : taken[path] = 1
    /\ \E f \in Positions(sent, proof_dirs[2], JobFinished) :
         \E g \in Positions(sent, proof_dirs[1], JobFinished) : f < g

\* ------------------------------------------------------------------- C3
\* C3: with parallel_jobs >= 1, once the receive loop is entered the call
\* comes to its end, with Ok or, where a write to the output file or to
\* stdout failed, with the Err or the panic of that write; when it has ended
\* with Ok
\* completed_jobs = nr_of_jobs, no message is left in the channel, and no
\* worker is left blocked on the work queue or holding a sender.
C3_LoopEndsWithAllJobsCompleted ==
    /\ [](Done /\ parallel_jobs >= 1 =>
            /\ completed_jobs = nr_of_jobs
            /\ rcvd = Len(sent)
            /\ \A w \in Workers : wpc[w] \in {"unspawned", "exited"})
    /\ ((main_pc = "recv_loop" /\ parallel_jobs >= 1)
           ~> (Done \/ main_pc \in {"write_err", "panicked_stdout"}))

\* ------------------------------------------------------------------- C4
\* C4: a run is reported RunFinished exactly when its command exited with
\* status 0: in the step that sends the message of a run, the payload is
\* RunFinished if and only if run_make returned an exit status of 0.
C4_RunFinishedOnlyOnExitZero ==
    [][\A w \in Workers :
          (/\ wpc[w] = "send_run_end"
           /\ wpc'[w] /= "send_run_end"
           /\ Len(sent') = Len(sent) + 1)
          => (sent'[Len(sent')].payload = RunFinished <=> wres[w] = ExitZero)]_vars

\* ------------------------------------------------------------------- C5
\* the i-th run of a job ended in RunFailed
RunFailedAt(stream, path, i) ==
    LET ends == EventsWith(stream, path, {RunFinished, RunFailed})
    IN i <= Len(ends) /\ ends[i].payload = RunFailed

\* every job went through all its iterations and its JobFinished, every
\* message was processed, and the records hold None exactly for the failed runs
BatchComplete ==
    /\ Done
    /\ completed_jobs = nr_of_jobs
    /\ rcvd = Len(sent)
    /\ \A path \in Paths :
         /\ Count(sent, path, {RunFinished, RunFailed}) = iterations
         /\ Count(sent, path, {JobFinished}) = 1
         /\ path \in DOMAIN proof_runtimes
         /\ Len(proof_runtimes[path]) = iterations
         /\ \A i \in 1..iterations :
              proof_runtimes[path][i] = None <=> RunFailedAt(sent, path, i)

\* C5: once some run has been reported RunFailed, the batch still runs to
\* its end unless a write to the output file or to stdout fails: every job, the failed
\* one included, performs all its iterations and sends JobFinished, and the
\* aggregator processes every message and records a missing duration for
\* exactly the failed runs.
C5_RunFailureIsNotFatal ==
    (\E i \in 1..Len(sent) : sent[i].payload = RunFailed)
        ~> (BatchComplete \/ main_pc \in {"write_err", "panicked_stdout"})

\* ------------------------------------------------------------------- C6
\* the jobs sorted before `path` whose JobFinished sits before position p
FinishedEarlier(path, p) ==
    {other \in Paths :
        /\ Rank(other) < Rank(path)
        /\ \E f \in Positions(sent, other, JobFinished) : f < p}

\* C6: with parallel_jobs >= 1, the JobStarted and every RunStarted of the
\* k-th job in sorted order, k > parallel_jobs, are sent only after at least
\* k - parallel_jobs jobs sorted before it have sent JobFinished.
C6_AdmissionBoundedByCompletions ==
    parallel_jobs >= 1 =>
        \A p \in 1..Len(sent) :
            (/\ sent[p].payload \in {JobStarted, RunStarted}
             /\ Rank(sent[p].path) > parallel_jobs)
            => Cardinality(FinishedEarlier(sent[p].path, p))
                   >= Rank(sent[p].path) - parallel_jobs

\* the third of three jobs sends its first RunStarted on a pool of two when
\* exactly one of the first two jobs has sent JobFinished, the second of them
C6_Witness ==
    /\ parallel_jobs = 2
    /\ \E p \in 1..Len(sent) :
         /\ sent[p].payload = RunStarted
         /\ Rank(sent[p].path) = 3
         /\ FinishedEarlier(sent[p].path, p) = {proof_dirs[2]}

\* ------------------------------------------------------------------- C7
\* the payloads that may follow a payload in the messages of one job
MayFollow(a, b) ==
    \/ a = JobStarted /\ b \in {RunStarted, JobFinished}
    \/ a = RunStarted /\ b \in {RunFinished, RunFailed}
    \/ a \in {RunFinished, RunFailed} /\ b \in {RunStarted, JobFinished}

\* JobStarted, then RunStarted and a run end in turns, then JobFinished
Alternates(events) ==
    /\ events /= <<>> => events[1].payload = JobStarted
    /\ \A i \in 1..(Len(events) - 1) :
         MayFollow(events[i].payload, events[i + 1].payload)

\* C7: for every job, its messages as sent and as received by the aggregator
\* start with JobStarted, then alternate RunStarted and RunFinished/RunFailed,
\* and hold nothing after JobFinished.
C7_RunEventsAlternate ==
    \A path \in Paths :
        /\ Alternates(EventsOf(sent, path))
        /\ Alternates(EventsOf(Received, path))

\* on a pool of two the aggregator has received the whole life of a job of
\* two runs, the first failed and the second finished, and between the
\* RunStarted and the end of one of these runs a run event of the other job
C7_Witness ==
    /\ iterations = 2
    /\ parallel_jobs = 2
    /\ \E path \in Paths :
         /\ Len(EventsOf(Received, path)) = 6
         /\ EventsOf(Received, path)[3].payload = RunFailed
         /\ EventsOf(Received, path)[5].payload = RunFinished
         /\ \E i, j, k \in 1..rcvd :
              /\ i < j /\ j < k
              /\ sent[i].path = path /\ sent[i].payload = RunStarted
              /\ sent[k].path = path /\ sent[k].payload \in {RunFinished, RunFailed}
              /\ \A m \in (i + 1)..(k - 1) : sent[m].path /= path
              /\ sent[j].payload \in {RunStarted, RunFinished, RunFailed}

\* ------------------------------------------------------------------- C8
\* C8: a job's record never holds more than `iterations` entries, and once the
\* aggregator has processed the job's JobFinished it holds exactly
\* `iterations`, as many as the RunStarted and as the RunFinished plus
\* RunFailed messages processed for the job.
C8_RecordLengthIsIterations ==
    \A path \in DOMAIN proof_runtimes :
        /\ Len(proof_runtimes[path]) <= iterations
        /\ Count(Received, path, {JobFinished}) > 0 =>
             /\ Len(proof_runtimes[path]) = iterations
             /\ Count(Received, path, {RunStarted}) = iterations
             /\ Count(Received, path, {RunFinished, RunFailed}) = iterations

\* the JobFinished of a job of two runs has been processed
C8_Witness ==
    /\ iterations = 2
    /\ \E path \in DOMAIN proof_runtimes :
         /\ Count(Received, path, {JobFinished}) = 1
         /\ Len(proof_runtimes[path]) = 2

\* ------------------------------------------------------------------- C9
\* C9: every duration in a job's record is the timestamp of the RunFinished of
\* that run of that job minus the timestamp of its RunStarted, and is >= 0.
C9_DurationIsFinishMinusStart ==
    \A path \in DOMAIN proof_runtimes :
        \A i \in 1..Len(proof_runtimes[path]) :
            IsSome(proof_runtimes[path][i]) =>
                LET starts == EventsWith(Received, path, {RunStarted})
                    ends == EventsWith(Received, path, {RunFinished, RunFailed})
                IN /\ ends[i].payload = RunFinished
                   /\ proof_runtimes[path][i][1] = ends[i].timestamp - starts[i].timestamp
                   /\ proof_runtimes[path][i][1] >= 0

\* a duration was recorded for a run whose RunStarted reached the aggregator
\* behind a message of the other job that carries a later timestamp
C9_Witness ==
    \E a, b, c \in 1..rcvd :
        /\ a < b /\ b < c
        /\ sent[a].path /= sent[b].path
        /\ sent[a].timestamp > sent[b].timestamp
        /\ sent[b].payload = RunStarted
        /\ sent[c].payload = RunFinished
        /\ sent[c].path = sent[b].path
        /\ IsSome(proof_runtimes[sent[b].path][1])

\* ------------------------------------------------------------------ C10
\* a sequence of bytes cut at every separator byte; `piece` is the part
\* collected since the last separator
RECURSIVE Split(_, _, _)
Split(data, sep, piece) ==
    IF data = <<>>
    THEN <<piece>>
    ELSE IF Head(data) = sep
         THEN <<piece>> \o Split(Tail(data), sep, <<>>)
         ELSE Split(Tail(data), sep, Append(piece, Head(data)))

\* the file's content cut into rows at the line ends; what follows the last
\* line end, if anything, is a row of its own
SplitRows(data) ==
    LET pieces == Split(data, Newline[1], <<>>)
    IN IF pieces[Len(pieces)] = <<>> THEN SubSeq(pieces, 1, Len(pieces) - 1) ELSE pieces

\* the fields of a row: the name, then one field per comma
FieldsOf(row) == Split(row, Comma[1], <<>>)

\* a run field is empty or a decimal number
IsNumber(field) == \A i \in 1..Len(field) : field[i] \in 48..57

\* the JobFinished messages processed so far, in order
FinishOrder == SelectSeq(Received, LAMBDA m : m.payload = JobFinished)

\* C10: as long as no write has failed, the file holds one row per
\* JobFinished processed, in that order; a row is the job's name and
\* `iterations` run fields, the i-th of them a number exactly when the job's
\* i-th run ended in RunFinished and empty otherwise; and when the batch is
\* over (parallel_jobs >= 1) the rows are as many as the jobs, one for every
\* job.
C10_OneRowPerJobInFinishOrder ==
    main_pc /= "write_err" =>
        LET rows == SplitRows(csv_file.data) IN
        /\ Len(rows) = Len(FinishOrder)
        /\ \A r \in 1..Len(rows) :
             LET path == FinishOrder[r].path
                 fields == FieldsOf(rows[r])
             IN /\ fields[1] = file_name(path)
                /\ Len(fields) = iterations + 1
                /\ \A i \in 1..(Len(fields) - 1) :
                     /\ IsNumber(fields[i + 1])
                     /\ fields[i + 1] /= <<>> <=>
                          EventsWith(sent, path, {RunFinished, RunFailed})[i].payload
                              = RunFinished
        /\ \A r1, r2 \in 1..Len(rows) :
             FieldsOf(rows[r1])[1] = FieldsOf(rows[r2])[1] => r1 = r2
        /\ (Done /\ parallel_jobs >= 1) =>
             /\ Len(rows) = nr_of_jobs
             /\ {FieldsOf(rows[r])[1] : r \in 1..Len(rows)}
                    = {file_name(path) : path \in Paths}

\* ------------------------------------------------------------------ C11
\* a row as the job name plus, run by run, whether the field holds a number
RowPattern(row) ==
    LET fields == FieldsOf(row)
    IN <<fields[1], [i \in 1..(Len(fields) - 1) |-> fields[i + 1] /= <<>>]>>

\* the rows fixed by the jobs, iterations and the stubbed command alone: a
\* field holds a number exactly when run_make returned Ok for that run
ExpectedRows ==
    {<<name, [i \in 1..iterations |-> IsOk(make_stub[<<name, i>>])]>> :
        name \in dir_entries}

\* C11: with the result of every (job, run) fixed beforehand and as long as
\* no write has failed, the rows of the file, each as name plus pattern of
\* present and empty fields, are always among the rows fixed by the jobs,
\* iterations and results alone, no name has two rows, and when a batch with
\* parallel_jobs >= 1 is over the set of rows is exactly that set, whatever
\* the interleaving and the number of workers were.
C11_RowSetIndependentOfInterleaving ==
    main_pc /= "write_err" =>
        LET rows == SplitRows(csv_file.data)
            patterns == {RowPattern(rows[r]) : r \in 1..Len(rows)}
        IN /\ patterns \subseteq ExpectedRows
           /\ Cardinality(patterns) = Len(rows)
           /\ (Done /\ parallel_jobs >= 1) => patterns = ExpectedRows

\* ------------------------------------------------------------------ C12
\* C12: the output file only grows at its end: at every step the content the
\* file held before the step, the content found at the open included, is
\* still there, byte for byte, as the leading part of the content after it.
C12_CsvAppendOnly ==
    [][/\ Len(csv_file'.data) >= Len(csv_file.data)
       /\ SubSeq(csv_file'.data, 1, Len(csv_file.data)) = csv_file.data]_vars

\* ------------------------------------------------------------------ C13
\* C13: when read_dir has failed and the error is returned, no worker was
\* spawned, no job was dispatched, no event was sent or received, no command
\* was called, nothing was printed and the output file holds no row.
C13_ReadDirErrorBeforeAnyWork ==
    main_pc = "read_dir_err" =>
        /\ spawned = 0
        /\ \A w \in Workers : wpc[w] = "unspawned" /\ wres[w] = "none" /\ wts[w] = 0
        /\ dispatched = 0
        /\ queue = <<>>
        /\ sent = <<>>
        /\ rcvd = 0
        /\ completed_jobs = 0
        /\ stdout = <<>>
        /\ csv_file.data = <<>>

\* the directory could not be read in a batch asked to run two jobs on two
\* workers
C13_Witness ==
    /\ main_pc = "read_dir_err"
    /\ parallel_jobs = 2
    /\ iterations = 1
    /\ Cardinality(dir_entries) = 2

\* ------------------------------------------------------------------ C16
\* C16: proof_runtimes holds a record only for paths whose JobStarted has
\* been processed and whose JobFinished has not.
C16_RecordRemovedAtJobFinished ==
    \A path \in DOMAIN proof_runtimes :
        /\ Count(Received, path, {JobStarted}) >= 1
        /\ Count(Received, path, {JobFinished}) = 0

\* ------------------------------------------------------------------ C17
\* the lines printed for the runs of one job that start with one of the texts
RunLines(name, texts) ==
    SelectSeq(stdout, LAMBDA line : line[1] \in texts /\ line[4] = name)

\* C17: for every job, the i-th STARTING RUN line and the i-th line that
\* reports the end of a run (FINISHED RUN or FAILED RUN) both carry the
\* index i.
C17_ProgressLinesCarryRunIndex ==
    \A name \in dir_entries :
        LET starts == RunLines(name, {"STARTING RUN"})
            ends == RunLines(name, {"FINISHED RUN", "FAILED RUN"})
        IN /\ \A i \in 1..Len(starts) : starts[i][2] = i
           /\ \A i \in 1..Len(ends) : ends[i][2] = i

\* ------------------------------------------------------------------ C18
\* what the arm of the match needs to find for the message not to panic
FindsItsEntries(msg) ==
    CASE msg.payload = JobStarted -> TRUE
      [] msg.payload = RunStarted -> msg.path \in DOMAIN proof_runtimes
      [] msg.payload \in {RunFinished, RunFailed} ->
            msg.path \in DOMAIN started_runs /\ msg.path \in DOMAIN proof_runtimes
      [] msg.payload = JobFinished -> msg.path \in DOMAIN proof_runtimes

\* C18: with the workers running run_proof, no lookup in an arm of the match
\* panics: the aggregator panics only before the match, at a job name that
\* is not UTF-8, or at a println! that cannot write to stdout, and whenever a
\* message waits at the head of the channel
\* the tables hold what its arm looks up: the record for RunStarted and
\* JobFinished, the start marker and the record for RunFinished and RunFailed.
C18_NoProtocolViolation ==
    /\ main_pc /= "panicked"
    /\ main_pc = "panicked_utf8" =>
         (rcvd >= 1 /\ to_str(file_name(sent[rcvd].path)) = None)
    /\ (main_pc = "recv_loop" /\ rcvd < Len(sent)) => FindsItsEntries(sent[rcvd + 1])

\* two workers ran two jobs, runs ended both ways, the aggregator took a
\* message of the second job between two of the first, and it has handled
\* every message
C18_Witness ==
    /\ Done
    /\ parallel_jobs = 2
    /\ nr_of_jobs = 2
    /\ rcvd = Len(sent)
    /\ \E i, j \in 1..Len(sent) :
         sent[i].payload = RunFailed /\ sent[j].payload = RunFinished
    /\ \E i, j, k \in 1..Len(sent) :
         /\ i < j /\ j < k
         /\ sent[i].path = sent[k].path
         /\ sent[j].path /= sent[i].path

\* ------------------------------------------------------------------ C19
\* C19: started_runs never holds more than parallel_jobs markers, a
\* RunStarted about to be received never finds a marker of its job, and
\* when the loop has ended started_runs is empty.
C19_StartMarkersBounded ==
    /\ Cardinality(DOMAIN started_runs) <= parallel_jobs
    /\ (main_pc = "recv_loop" /\ rcvd < Len(sent) /\ sent[rcvd + 1].payload = RunStarted)
          => sent[rcvd + 1].path \notin DOMAIN started_runs
    /\ Done => started_runs = EmptyMap

\* on a pool of two the aggregator holds the markers of two of three jobs
\* and lags four messages or more, among them the RunStarted of the third job
C19_Witness ==
    /\ parallel_jobs = 2
    /\ nr_of_jobs = 3
    /\ Cardinality(DOMAIN started_runs) = 2
    /\ Len(sent) - rcvd >= 4
    /\ \E p \in (rcvd + 1)..Len(sent) :
         /\ sent[p].payload = RunStarted
         /\ sent[p].path \notin DOMAIN started_runs

\* ------------------------------------------------------------------ C20
\* C20: with parallel_jobs = 0 nothing is ever spawned, sent, received, run,
\* printed or written and nothing panics; and once the directory has been
\* read with at least one job, the batch comes to its end with Ok, every job
\* on the work queue and completed_jobs = 0.
C20_NoWorkersNoBlock ==
    /\ [](parallel_jobs = 0 =>
            /\ spawned = 0
            /\ \A w \in Workers : wpc[w] = "unspawned" /\ wres[w] = "none" /\ wts[w] = 0
            /\ sent = <<>>
            /\ rcvd = 0
            /\ completed_jobs = 0
            /\ stdout = <<>>
            /\ csv_file.data = <<>>
            /\ main_pc \notin MainPanics)
    /\ (parallel_jobs = 0 /\ main_pc = "run_all" /\ nr_of_jobs >= 1)
          ~> (Done /\ completed_jobs = 0 /\ dispatched = nr_of_jobs
                   /\ Len(queue) = nr_of_jobs)

\* a batch of three jobs without workers has returned Ok
C20_Witness ==
    /\ Done
    /\ parallel_jobs = 0
    /\ nr_of_jobs = 3
    /\ iterations = 2
    /\ Len(queue) = 3

====
